---- MODULE Spec2Model ----
(***************************************************************************)
(* The "toolbox" of haglauerpatryk/sass_web_app: one call of a function    *)
(* wrapped by ToolBox.catch_error (src/src/toolbox/basic.py), through the  *)
(* ping layer (src/src/toolbox/ping_manager.py), the log sink              *)
(* (src/src/toolbox/response_objects.py) and a handler that is either an   *)
(* arbitrary callable or one built by reroute_with_retry                   *)
(* (src/src/toolbox/utils.py, on tenacity's retry loop).                   *)
(* Further machines on the same variables: the provider registry, the log  *)
(* sink called directly, a call under failing log destinations, a call     *)
(* with arguments, the decorator composer of                               *)
(* src/src/aop_error_handler/toolbox/basic.py on two threads, and the      *)
(* per-thread log_manager property.                                        *)
(***************************************************************************)
EXTENDS Integers, Sequences, FiniteSets, TLC

VARIABLES
    DEBUG,           \* ToolBoxManager.DEBUG
    PING,            \* ToolBoxManager.PING
    ping_providers,  \* PingManager.ping_providers, in registration order
    handlers,        \* the dict given to catch_error: its keys, in insertion order
    pc,              \* where the call is
    exc,             \* e of "except Exception as e" in wrapper
    tout,            \* what the target did: returned v / raised E
    hout,            \* what the invoked handler did: returned r / raised X
    result,          \* what the caller of the wrapped function observes
    log,             \* the records emitted through LogManager, in order
    invoked,         \* the table entries whose handler was called, in order
    targetRuns,      \* how many times func ran
    provCalls,       \* how many provider invocations happened
    retries,         \* reroute_with_retry's retries argument
    attempt_number,  \* tenacity's retry_state.attempt_number
    fb,              \* the outcomes of the fallback's attempts, in order
    provInvoked,     \* the providers that were called, in order
    regCalls,        \* the arguments of the register_provider calls, in order
    collected,       \* what the call of _collect_pings gave
    fault,           \* the condition of the two log destinations
    sinkCalls,       \* the direct add_info_log / add_error_log calls, in order
    func,            \* the function catch_error wraps
    args,            \* the positional arguments of the call
    kwargs,          \* the keyword arguments of the call
    context,         \* the context dict of wrapper's except block
    fbArgs,          \* the arguments each fallback attempt was called with
    decorators,      \* the composed ToolBox's self.decorators, in registration order
    wrapped,         \* what __call__ made of the target
    state,           \* the composed ToolBox's self.state
    start_time,      \* the composed ToolBox's _start_time attribute, 0 when unset
    clock,           \* the next value of perf_counter()
    inv,             \* the invocation of the composed function on each thread
    storage,         \* ToolBox._storage: each thread's log_manager slot, 0 when unset
    instances,       \* how many LogManager objects exist
    acc,             \* the log_manager accesses of each thread
    payload,         \* what wrapped() handed to add_info_log: message and context
    reg,             \* the register_provider call each thread is in
    number,          \* the module-level number of cfehome/views.py, 0 for None
    req,             \* the home_view requests of each thread
    hinv,            \* the invocations of one reroute_with_retry handler, per thread
    light,           \* what light_toolbox made of the function it was given
    targetArgs,      \* the arguments the light_toolbox-decorated target was run with
    loggerHandlers,  \* the handlers of the "toolbox" logger, in addHandler order
    configCalls,     \* how many times configure_toolbox_logging was called
    rendered         \* what each destination has rendered

vars == <<DEBUG, PING, ping_providers, handlers, pc, exc, tout, hout, result,
          log, invoked, targetRuns, provCalls, retries, attempt_number, fb,
          provInvoked, regCalls, collected, fault, sinkCalls,
          func, args, kwargs, context, fbArgs,
          decorators, wrapped, state, start_time, clock, inv,
          storage, instances, acc, payload,
          reg, number, req, hinv, light, targetArgs,
          loggerHandlers, configCalls, rendered>>

-----------------------------------------------------------------------------
(* Bounds and constants *)

\* The largest retries value a handler is built with.
MaxRetries == 3

\* reroute_with_retry(fallback_func, toolbox, retries=3, delay=0.2)
DefaultRetries == 3

-----------------------------------------------------------------------------
(* Exceptions and values *)

\* The classes of the exception hierarchy the model uses.
Classes == {"BaseException", "KeyboardInterrupt", "Exception", "LookupError",
            "KeyError", "ValueError", "RetryError", "OSError"}

\* The direct base class of each class (BaseException is the root).
Base(c) ==
    CASE c = "KeyboardInterrupt" -> "BaseException"
      [] c = "Exception"         -> "BaseException"
      [] c = "LookupError"       -> "Exception"
      [] c = "KeyError"          -> "LookupError"
      [] c = "ValueError"        -> "Exception"
      [] c = "RetryError"        -> "Exception"
      [] c = "OSError"           -> "Exception"
      [] OTHER                   -> "BaseException"

RECURSIVE issubclass(_, _)
issubclass(c, k) ==
    IF c = k THEN TRUE
    ELSE IF c = "BaseException" THEN FALSE
    ELSE issubclass(Base(c), k)

\* isinstance(e, exc_type)
isinstance(e, k) == issubclass(e.type, k)

NoExc == [type |-> "None", msg |-> ""]

\* The exceptions a target, a provider, a handler or a fallback raises.
Raisable == {[type |-> "ValueError", msg |-> "Oops"],
             [type |-> "KeyError", msg |-> "k"],
             [type |-> "KeyboardInterrupt", msg |-> ""]}

\* The values a target, a handler or a fallback returns.
Vals == {1, 2}

\* The key types of handler tables.
KeyTypes == {"Exception", "LookupError", "ValueError"}

\* Outcomes of a callable.
NoOutcome == [kind |-> "none", val |-> 0, exc |-> NoExc]
Returned(v) == [kind |-> "return", val |-> v, exc |-> NoExc]
Raised(x) == [kind |-> "raise", val |-> 0, exc |-> x]

\* Every dict over KeyTypes: the sequences of distinct keys.
Tables ==
    {s \in UNION {[1..n -> KeyTypes] : n \in 0..Cardinality(KeyTypes)} :
        \A i, j \in 1..Len(s) : i # j => s[i] # s[j]}

\* The providers: the built-in one of ToolboxConfig.ready, and one that raises.
Providers == {"default", "faulty"}

Registries ==
    {s \in UNION {[1..n -> Providers] : n \in 0..Cardinality(Providers)} :
        \A i, j \in 1..Len(s) : i # j => s[i] # s[j]}

\* The {message, context} fragment a provider returns for an invocation; the
\* built-in provider's message is empty and its context names the function.
\* A context is a set of <<key, value>> pairs; a provider other than the
\* built-in one gives its name as message and, under its own key and under
\* func_name, as value.
Fragment(p) ==
    IF p = "default"
    THEN [message |-> "",
          context |-> {<<"func_name", func>>, <<"func_path", "cfehome/views.py">>}]
    ELSE [message |-> p, context |-> {<<p, p>>, <<"func_name", p>>}]

\* The keys of a context.
Keys(c) == {pr[1] : pr \in c}

\* A merge in which the first provider of a key keeps it.
UpdateKeepsFirst(d, c) == d \cup {pr \in c : pr[1] \notin Keys(d)}

\* merged_ctx.update(c)
Update(d, c) == {pr \in d : pr[1] \notin Keys(c)} \cup c

\* merged_ctx after the loop over the first n payloads.
RECURSIVE MergeContext(_, _)
MergeContext(frags, n) ==
    IF n = 0 THEN {} ELSE Update(MergeContext(frags, n - 1), frags[n].context)

\* A string as the sequence of its pieces: the empty message has none.
Pieces(m) == IF m = "" THEN <<>> ELSE <<m>>

\* "\n".join of the first n messages, as pieces and "\n" separators.
RECURSIVE JoinMessages(_, _)
JoinMessages(frags, n) ==
    IF n = 0 THEN <<>>
    ELSE IF n = 1 THEN Pieces(frags[1].message)
    ELSE JoinMessages(frags, n - 1) \o <<"\n">> \o Pieces(frags[n].message)

\* The payloads of the providers ps, in call order.
Payloads(ps) == [i \in 1..Len(ps) |-> Fragment(ps[i])]

\* add_info_log has not been called by wrapped().
NoPayload == [called |-> FALSE, message |-> <<>>, context |-> {}]

\* _collect_pings has not been called.
NotCollected == [state |-> "none", frags |-> <<>>, exc |-> NoExc]

-----------------------------------------------------------------------------
(* The log sink *)

InfoRecord == [level |-> "INFO", tag |-> "PING", attempt |-> 0, exc |-> NoExc]
TriggerRecord(e) == [level |-> "ERROR", tag |-> "TRIGGER", attempt |-> 0, exc |-> e]

\* add_info_log gated like add_error_log, on DEBUG alone.
add_info_log_gated_on_debug(l, rec) == IF ~DEBUG THEN l ELSE Append(l, rec)

\* LogManager.add_info_log
add_info_log(l, rec) == IF ~(DEBUG /\ PING) THEN l ELSE Append(l, rec)

\* add_error_log gated like add_info_log, on both flags.
add_error_log_gated_on_ping(l, rec) == IF ~(DEBUG /\ PING) THEN l ELSE Append(l, rec)

\* LogManager.add_error_log
add_error_log(l, rec) == IF ~DEBUG THEN l ELSE Append(l, rec)

\* The condition of the destinations while records are emitted: healthy; the
\* console handler's format or write raises; the file handler's format or
\* write raises and handleError can append to logs.txt; the file handler's
\* write raises and handleError's own open or write raises too.
Faults == {"none", "console", "durable", "unwritable"}

\* What open(self.baseFilename, 'a') raises in VerboseFileHandler.handleError.
LoggingFault == [type |-> "OSError", msg |-> "logs.txt"]

\* The console handler's filter.
ConsoleFilter(rec) == DEBUG /\ (rec.level = "ERROR" \/ PING)

\* What VerboseFileHandler.handleError appends to logs.txt.
HandlerFailureEntry ==
    [level |-> "FAILURE", tag |-> "Logging error (handler failure)",
     attempt |-> 0, exc |-> NoExc]

\* What the console shows of the emitted records l: those the filter passes;
\* CleanConsoleHandler.handleError drops a record whose emit fails.
Console(l) == SelectSeq(l, LAMBDA r : ConsoleFilter(r) /\ fault # "console")

\* What logs.txt holds of the emitted records l: every record, or, when emit
\* fails, what handleError managed to append in its place.
Durable(l) ==
    CASE fault \in {"none", "console"} -> l
      [] fault = "durable"    -> [i \in 1..Len(l) |-> HandlerFailureEntry]
      [] fault = "unwritable" -> <<>>

\* The add_*_log call that took the emitted records from l to l2 raises:
\* a record reached the file handler and handleError raised.
EmitRaises(l, l2) == l2 # l /\ fault = "unwritable"

-----------------------------------------------------------------------------
(* The error dispatcher: ToolBox.catch_error *)

\* A lookup that keeps the last matching entry instead of the first.
ScanHandlersLast(h, e, i) ==
    IF \E j \in i..Len(h) : isinstance(e, h[j])
    THEN CHOOSE j \in i..Len(h) :
            isinstance(e, h[j]) /\ \A m \in (j + 1)..Len(h) : ~isinstance(e, h[m])
    ELSE 0

\* for exc_type, handler in handlers.items(): if isinstance(e, exc_type): ...
\* The position of the first matching entry from position i on, 0 when none.
RECURSIVE ScanHandlers(_, _, _)
ScanHandlers(h, e, i) ==
    IF i > Len(h) THEN 0
    ELSE IF isinstance(e, h[i]) THEN i
    ELSE ScanHandlers(h, e, i + 1)

\* The position of key k in the table, 0 when absent ("k in handlers").
KeyIndex(h, k) ==
    IF \E i \in 1..Len(h) : h[i] = k
    THEN CHOOSE i \in 1..Len(h) : h[i] = k
    ELSE 0

\* The entry whose handler the except block calls, 0 when it re-raises:
\* the loop's first match, else the entry keyed Exception, else none.
SelectHandler(h, e) ==
    IF ScanHandlers(h, e, 1) # 0 THEN ScanHandlers(h, e, 1)
    ELSE IF KeyIndex(h, "Exception") # 0 THEN KeyIndex(h, "Exception")
    ELSE 0

\* The handler's value is dropped and the original exception raised again.
AfterHandlerReraises(o) == IF o.kind = "return" THEN Raised(exc) ELSE o

\* The handler's exception is wrapped in a new Exception.
AfterHandlerWraps(o) ==
    IF o.kind = "raise"
    THEN Raised([type |-> "Exception", msg |-> o.exc.msg])
    ELSE o

\* "return handler(e, context)": the handler's outcome is the call's outcome.
AfterHandler(o) == o

\* The call without its "return": the target's value is lost, None comes back.
AfterTargetDropsValue(o) == Returned(0)

\* "return wrapped_with_pings(*args, **kwargs)": the target's value is returned.
AfterTarget(o) == o

\* "raise Exception(str(e))" in place of the bare raise.
ReraiseWrapped(e) == Raised([type |-> "Exception", msg |-> e.msg])

\* The bare "raise" that ends the except block.
Reraise(e) == Raised(e)

-----------------------------------------------------------------------------
(* Retry recovery: reroute_with_retry on tenacity *)

\* reraise=True
reraise == TRUE

\* tenacity's default retry predicate, retry_if_exception_type(Exception).
retry_if_exception(x) == isinstance(x, "Exception")

\* A stop condition that allows one attempt more.
stop_after_attempt_late(n, attempt) == attempt > n

\* stop=stop_after_attempt(retries): attempt_number >= max_attempt_number.
stop_after_attempt(n, attempt) == attempt >= n

RetryError(x) == [type |-> "RetryError", msg |-> x.type]

\* What leaves _call_with_retry once the stop condition holds.
Exhausted(x) == IF reraise THEN x ELSE RetryError(x)

\* handler's "except RetryError as re: raise re.last_attempt.exception()".
HandlerExcept(y, last) == IF y.type = "RetryError" THEN last ELSE y

\* A record numbered with the attempt to come, not the one that failed.
RetryRecordNext(attempt, x) ==
    [level |-> "ERROR", tag |-> "RETRY", attempt |-> attempt + 1, exc |-> x]

\* _before_sleep's record: "RETRY <attempt_number>: ... TRIGGER: <type>: <exc>".
RetryRecord(attempt, x) ==
    [level |-> "ERROR", tag |-> "RETRY", attempt |-> attempt, exc |-> x]

-----------------------------------------------------------------------------
(* The state machine of one wrapped call *)

\* The values a positional or keyword argument takes; requests have a user.
ArgValues == {"a", "request1", "request2"}
hasattr_user(a) == a \in {"request1", "request2"}

\* The wrapped functions.
Funcs == {"home_view", "other_view"}

\* The position of the last argument with a user attribute, 0 when none.
LastWithUser(a) ==
    IF \E i \in 1..Len(a) : hasattr_user(a[i])
    THEN CHOOSE i \in 1..Len(a) :
            hasattr_user(a[i]) /\ \A j \in (i + 1)..Len(a) : ~hasattr_user(a[j])
    ELSE 0

\* The position of the first argument with a user attribute, 0 when none.
FirstWithUser(a) ==
    IF \E i \in 1..Len(a) : hasattr_user(a[i])
    THEN CHOOSE i \in 1..Len(a) :
            hasattr_user(a[i]) /\ \A j \in 1..(i - 1) : ~hasattr_user(a[j])
    ELSE 0

\* wrapper's context dict for a call of f with a and k.
Context(f, a, k) ==
    [func |-> f, args |-> a, kwargs |-> k,
     request |-> IF FirstWithUser(a) = 0 THEN "None" ELSE a[FirstWithUser(a)],
     toolbox |-> "self"]

\* No context has been built.
NoContext ==
    [func |-> "None", args |-> <<>>, kwargs |-> {}, request |-> "None",
     toolbox |-> "None"]

\* A handler that passes the keyword arguments only.
FallbackArgumentsKeywordsOnly(error, ctx) == [args |-> <<>>, kwargs |-> ctx.kwargs]

\* handler(error, context): what _call_with_retry, and through it every
\* attempt's fallback_func, is called with.
FallbackArguments(error, ctx) == [args |-> ctx.args, kwargs |-> ctx.kwargs]

\* The threads that run invocations.
Threads == {"t1", "t2"}

\* A thread that has not called the composed function.
NoInvocation ==
    [pc |-> "idle", idx |-> 0, trace |-> <<>>, res |-> NoOutcome,
     result |-> NoOutcome, runs |-> 0]

\* __call__ has not been applied.
NotWrapped == [made |-> FALSE, chain |-> <<>>]

\* A thread that is not inside the log_manager property.
NoAccess == [pc |-> "idle", toolbox |-> "None", got |-> <<>>]

\* ToolBox(): self.decorators = [], self.state = {}; _start_time is not set.
ComposerAtRest ==
    /\ decorators = <<>>
    /\ wrapped = NotWrapped
    /\ state = {}
    /\ start_time = 0
    /\ clock = 1
    /\ inv = [t \in Threads |-> NoInvocation]

\* _storage = threading.local(): no thread has a log_manager attribute.
StorageAtRest ==
    /\ storage = [t \in Threads |-> 0]
    /\ instances = 0
    /\ acc = [t \in Threads |-> NoAccess]

\* One attribute namespace for every thread, as on a plain object.
StorageSlotShared(t) == "t1"

\* threading.local(): the attribute namespace a thread reads and writes is
\* its own; _storage is a class attribute, the same for every instance.
StorageSlot(t) == t

\* The log_manager property read in one piece by thread t: the LogManager is
\* created and stored when the thread has none.
EnsureLogManager(t) ==
    IF storage[StorageSlot(t)] = 0
    THEN /\ instances' = instances + 1
         /\ storage' = [storage EXCEPT ![StorageSlot(t)] = instances + 1]
    ELSE UNCHANGED <<storage, instances>>

\* The thread the wrapped call of the dispatcher runs on.
CallThread == "t1"

\* A thread that is not inside register_provider.
NotRegistering == [pc |-> "idle", fn |-> "None", calls |-> 0]

\* A thread that has sent no home_view request.
NoRequest == [pc |-> "idle", attempt |-> 0, results |-> <<>>]

\* A thread that has not invoked the handler.
NoHandlerInvocation == [pc |-> "idle", attempt |-> 0, tried |-> <<>>, history |-> <<>>]

\* light_toolbox has not been applied.
NotDecorated == [made |-> FALSE, form |-> "None", wrapper |-> FALSE]

\* Nothing has been rendered.
NothingRendered == [console |-> <<>>, file |-> <<>>]

\* The module state at import: no thread registers a provider, number = None,
\* no request or handler invocation runs, nothing is decorated, the "toolbox"
\* logger has no handler.
OthersAtRest ==
    /\ reg = [t \in Threads |-> NotRegistering]
    /\ number = 0
    /\ req = [t \in Threads |-> NoRequest]
    /\ hinv = [t \in Threads |-> NoHandlerInvocation]
    /\ light = NotDecorated
    /\ targetArgs = <<>>
    /\ loggerHandlers = <<>>
    /\ configCalls = 0
    /\ rendered = NothingRendered

\* A call of home_view without arguments, before it fails; nothing else runs.
DefaultCall ==
    /\ func = "home_view"
    /\ args = <<>>
    /\ kwargs = {}
    /\ context = NoContext
    /\ fbArgs = <<>>
    /\ payload = NoPayload
    /\ ComposerAtRest
    /\ StorageAtRest
    /\ OthersAtRest

Init ==
    /\ DEBUG \in BOOLEAN
    /\ PING \in BOOLEAN
    /\ ping_providers \in Registries
    /\ handlers \in Tables
    /\ pc = "idle"
    /\ exc = NoExc
    /\ tout = NoOutcome
    /\ hout = NoOutcome
    /\ result = NoOutcome
    /\ log = <<>>
    /\ invoked = <<>>
    /\ targetRuns = 0
    /\ provCalls = 0
    /\ retries = DefaultRetries
    /\ attempt_number = 0
    /\ fb = <<>>
    /\ provInvoked = <<>>
    /\ regCalls = <<>>
    /\ collected = NotCollected
    /\ fault = "none"
    /\ sinkCalls = <<>>
    /\ DefaultCall

config == <<DEBUG, PING, ping_providers, handlers, fault, func, args, kwargs>>
callInput == <<context, fbArgs, payload>>
retryState == <<retries, attempt_number, fb>>
registryVars == <<regCalls, collected>>
sinkVars == <<sinkCalls>>
composeVars == <<decorators, wrapped, state, start_time, clock, inv>>
storageVars == <<storage, instances, acc>>
raceVars == <<reg>>
viewVars == <<number, req>>
handlerVars == <<hinv>>
lightVars == <<light, targetArgs>>
loggingVars == <<loggerHandlers, configCalls, rendered>>
otherVars == <<raceVars, viewVars, handlerVars, lightVars, loggingVars>>

\* What a wrapped call leaves alone: the state of the other operations.
outsideCall == <<registryVars, sinkVars, composeVars, storageVars, otherVars>>
outsideLoggingCall == <<registryVars, sinkVars, composeVars, acc, otherVars>>

\* wrapper(*args, **kwargs) is called and enters wrapped_with_pings.
Call ==
    /\ pc = "idle"
    /\ pc' = "pings"
    /\ UNCHANGED <<config, outsideCall, callInput, exc, tout, hout, result, log, invoked, targetRuns,
                   provCalls, provInvoked, retryState>>

\* The position of the first provider that raises, 0 when none does.
FirstFaulty(ps) ==
    IF \E i \in 1..Len(ps) : ps[i] = "faulty"
    THEN CHOOSE i \in 1..Len(ps) :
            ps[i] = "faulty" /\ \A j \in 1..(i - 1) : ps[j] # "faulty"
    ELSE 0

\* wrapped(): with PING off the providers are skipped.
PingSkipped ==
    /\ pc = "pings"
    /\ ~PING
    /\ pc' = "target"
    /\ UNCHANGED <<config, outsideCall, callInput, exc, tout, hout, result, log, invoked, targetRuns,
                   provCalls, provInvoked, retryState>>

\* wrapped(): every provider is called in order, one INFO call follows; what
\* add_info_log raises leaves wrapped_with_pings into wrapper's try.
PingCollected ==
    /\ pc = "pings"
    /\ PING
    /\ FirstFaulty(ping_providers) = 0
    /\ provCalls' = provCalls + Len(ping_providers)
    /\ provInvoked' = provInvoked \o ping_providers
    /\ payload' = [called |-> TRUE,
                   message |-> JoinMessages(Payloads(ping_providers), Len(ping_providers)),
                   context |-> MergeContext(Payloads(ping_providers), Len(ping_providers))]
    /\ EnsureLogManager(CallThread)
    /\ log' = add_info_log(log, InfoRecord)
    /\ IF EmitRaises(log, log')
       THEN /\ exc' = LoggingFault
            /\ pc' = "caught"
       ELSE /\ pc' = "target"
            /\ UNCHANGED exc
    /\ UNCHANGED <<config, outsideLoggingCall, context, fbArgs, tout, hout, result, invoked, targetRuns,
                   retryState>>

\* A ping layer that drops what a provider raises and goes on to func.
AfterProviderRaiseRunsTarget(x) == "target"

\* Where the call is after a provider raised x in wrapped(): nothing there
\* catches it, so it is in wrapper's try, caught by "except Exception" or not.
AfterProviderRaise(x) == IF isinstance(x, "Exception") THEN "caught" ELSE "done"

\* wrapped(): a provider raises x; func is not reached, and x leaves
\* wrapped_with_pings into wrapper's try.
PingRaises(x) ==
    /\ pc = "pings"
    /\ PING
    /\ FirstFaulty(ping_providers) # 0
    /\ provCalls' = provCalls + FirstFaulty(ping_providers)
    /\ provInvoked' =
          provInvoked \o SubSeq(ping_providers, 1, FirstFaulty(ping_providers))
    /\ pc' = AfterProviderRaise(x)
    /\ exc' = IF pc' = "caught" THEN x ELSE exc
    /\ result' = IF pc' = "done" THEN Raised(x) ELSE result
    /\ UNCHANGED <<config, outsideCall, callInput, tout, hout, log, invoked, targetRuns, retryState>>

\* func(*args, **kwargs) returns v, and so does wrapper.
TargetReturns(v) ==
    /\ pc = "target"
    /\ targetRuns' = targetRuns + 1
    /\ tout' = Returned(v)
    /\ result' = AfterTarget(tout')
    /\ pc' = "done"
    /\ UNCHANGED <<config, outsideCall, callInput, exc, hout, log, invoked, provCalls, provInvoked, retryState>>

\* func(*args, **kwargs) raises x: "except Exception" catches it or lets it go.
TargetRaises(x) ==
    /\ pc = "target"
    /\ targetRuns' = targetRuns + 1
    /\ tout' = Raised(x)
    /\ IF isinstance(x, "Exception")
       THEN /\ exc' = x
            /\ pc' = "caught"
            /\ UNCHANGED result
       ELSE /\ result' = Raised(x)
            /\ pc' = "done"
            /\ UNCHANGED exc
    /\ UNCHANGED <<config, outsideCall, callInput, hout, log, invoked, provCalls, provInvoked, retryState>>

\* The except block up to the handler's call: the TRIGGER record, then the
\* lookup; a selected handler starts running, otherwise e is re-raised. What
\* add_error_log raises leaves the except block before the lookup.
Except ==
    /\ pc = "caught"
    /\ context' = Context(func, args, kwargs)
    /\ EnsureLogManager(CallThread)
    /\ log' = add_error_log(log, TriggerRecord(exc))
    /\ IF EmitRaises(log, log')
       THEN /\ result' = Raised(LoggingFault)
            /\ pc' = "done"
            /\ UNCHANGED invoked
       ELSE IF SelectHandler(handlers, exc) # 0
       THEN /\ invoked' = Append(invoked, SelectHandler(handlers, exc))
            /\ pc' = "handler"
            /\ UNCHANGED result
       ELSE /\ result' = Reraise(exc)
            /\ pc' = "done"
            /\ UNCHANGED invoked
    /\ UNCHANGED <<config, outsideLoggingCall, fbArgs, payload, exc, tout, hout, targetRuns, provCalls, provInvoked, retryState>>

\* The handler is an ordinary callable and returns r.
HandlerReturns(r) ==
    /\ pc = "handler"
    /\ hout' = Returned(r)
    /\ result' = AfterHandler(hout')
    /\ pc' = "done"
    /\ UNCHANGED <<config, outsideCall, callInput, exc, tout, log, invoked, targetRuns, provCalls, provInvoked,
                   retryState>>

\* The handler is an ordinary callable and raises x.
HandlerRaises(x) ==
    /\ pc = "handler"
    /\ hout' = Raised(x)
    /\ result' = AfterHandler(hout')
    /\ pc' = "done"
    /\ UNCHANGED <<config, outsideCall, callInput, exc, tout, log, invoked, targetRuns, provCalls, provInvoked,
                   retryState>>

\* The handler is reroute_with_retry(fallback, toolbox, retries=n):
\* handler(error, context) calls _call_with_retry, whose first attempt is 1.
HandlerReroute(n) ==
    /\ pc = "handler"
    /\ retries' = n
    /\ attempt_number' = 1
    /\ pc' = "attempt"
    /\ UNCHANGED <<config, outsideCall, callInput, exc, tout, hout, result, log, invoked, targetRuns,
                   provCalls, provInvoked, fb>>

\* An attempt: fallback_func(*args, **kwargs) returns v.
FallbackReturns(v) ==
    /\ pc = "attempt"
    /\ fbArgs' = Append(fbArgs, FallbackArguments(exc, context))
    /\ fb' = Append(fb, Returned(v))
    /\ hout' = Returned(v)
    /\ result' = AfterHandler(hout')
    /\ pc' = "done"
    /\ UNCHANGED <<config, outsideCall, context, payload, exc, tout, log, invoked, targetRuns, provCalls, provInvoked,
                   retries, attempt_number>>

\* An attempt: fallback_func(*args, **kwargs) raises x. tenacity gives up
\* (x is not retried, or the stop condition holds) or logs and sleeps; what
\* _before_sleep raises leaves the retry loop and handler.
FallbackRaises(x) ==
    /\ pc = "attempt"
    /\ fbArgs' = Append(fbArgs, FallbackArguments(exc, context))
    /\ fb' = Append(fb, Raised(x))
    /\ IF ~retry_if_exception(x)
       THEN /\ hout' = Raised(HandlerExcept(x, x))
            /\ result' = AfterHandler(hout')
            /\ pc' = "done"
            /\ UNCHANGED <<log, storage, instances>>
       ELSE IF stop_after_attempt(retries, attempt_number)
       THEN /\ hout' = Raised(HandlerExcept(Exhausted(x), x))
            /\ result' = AfterHandler(hout')
            /\ pc' = "done"
            /\ UNCHANGED <<log, storage, instances>>
       ELSE /\ EnsureLogManager(CallThread)
            /\ log' = add_error_log(log, RetryRecord(attempt_number, x))
            /\ IF EmitRaises(log, log')
               THEN /\ hout' = Raised(LoggingFault)
                    /\ result' = AfterHandler(hout')
                    /\ pc' = "done"
               ELSE /\ pc' = "sleep"
                    /\ UNCHANGED <<hout, result>>
    /\ UNCHANGED <<config, outsideLoggingCall, context, payload, exc, tout, invoked, targetRuns, provCalls, provInvoked,
                   retries, attempt_number>>

\* wait_fixed(delay) has passed: the next attempt starts.
Sleep ==
    /\ pc = "sleep"
    /\ attempt_number' = attempt_number + 1
    /\ pc' = "attempt"
    /\ UNCHANGED <<config, outsideCall, callInput, exc, tout, hout, result, log, invoked, targetRuns,
                   provCalls, provInvoked, retries, fb>>

Next ==
    \/ Call
    \/ PingSkipped
    \/ PingCollected
    \/ \E x \in Raisable : PingRaises(x)
    \/ \E v \in Vals : TargetReturns(v)
    \/ \E x \in Raisable : TargetRaises(x)
    \/ Except
    \/ \E r \in Vals : HandlerReturns(r)
    \/ \E x \in Raisable : HandlerRaises(x)
    \/ \E n \in -1..MaxRetries : HandlerReroute(n)
    \/ \E v \in Vals : FallbackReturns(v)
    \/ \E x \in Raisable : FallbackRaises(x)
    \/ Sleep

Spec == Init /\ [][Next]_vars

-----------------------------------------------------------------------------
(* The provider registry: register_provider and _collect_pings *)

\* The most register_provider calls of a behaviour.
MaxRegisterCalls == 3

\* The callables handed to register_provider.
ProviderFns == Providers \cup {"timing"}

\* The elements of a sequence.
Range(q) == {q[i] : i \in 1..Len(q)}

\* A registration without the membership test.
register_provider_always(ps, fn) == Append(ps, fn)

\* if fn not in cls.ping_providers: cls.ping_providers.append(fn)
register_provider(ps, fn) == IF fn \notin Range(ps) THEN Append(ps, fn) ELSE ps

\* _collect_pings' guard, "if not ToolBoxManager.PING: return []", negated.
Collects == PING

\* The state at import: ping_providers = [], nothing called yet.
InitRegistry ==
    /\ DEBUG \in BOOLEAN
    /\ PING \in BOOLEAN
    /\ ping_providers = <<>>
    /\ handlers = <<>>
    /\ pc = "idle"
    /\ exc = NoExc
    /\ tout = NoOutcome
    /\ hout = NoOutcome
    /\ result = NoOutcome
    /\ log = <<>>
    /\ invoked = <<>>
    /\ targetRuns = 0
    /\ provCalls = 0
    /\ retries = DefaultRetries
    /\ attempt_number = 0
    /\ fb = <<>>
    /\ provInvoked = <<>>
    /\ regCalls = <<>>
    /\ collected = NotCollected
    /\ fault = "none"
    /\ sinkCalls = <<>>
    /\ DefaultCall

callVars == <<handlers, fault, func, args, kwargs, callInput, pc, exc, tout, hout, result, invoked,
              targetRuns, retryState, sinkVars, composeVars, storageVars, otherVars>>

\* PingManager.register_provider(fn), at startup: before the collection.
RegisterProvider(fn) ==
    /\ Len(regCalls) < MaxRegisterCalls
    /\ collected = NotCollected
    /\ regCalls' = Append(regCalls, fn)
    /\ ping_providers' = register_provider(ping_providers, fn)
    /\ UNCHANGED <<DEBUG, PING, callVars, log, provCalls, provInvoked,
                   collected>>

\* self._collect_pings(func, args, kwargs) returns: the guard sends back [],
\* or every provider is called in order and the fragments are returned.
CollectPingsReturns ==
    /\ collected = NotCollected
    /\ ~Collects \/ FirstFaulty(ping_providers) = 0
    /\ IF ~Collects
       THEN /\ collected' = [state |-> "returned", frags |-> <<>>, exc |-> NoExc]
            /\ UNCHANGED <<provCalls, provInvoked>>
       ELSE /\ collected' =
                  [state |-> "returned",
                   frags |-> [i \in 1..Len(ping_providers) |->
                                 Fragment(ping_providers[i])],
                   exc |-> NoExc]
            /\ provCalls' = provCalls + Len(ping_providers)
            /\ provInvoked' = provInvoked \o ping_providers
    /\ UNCHANGED <<DEBUG, PING, ping_providers, callVars, log, regCalls>>

\* self._collect_pings(func, args, kwargs) raises: a provider raised x, which
\* leaves the list comprehension.
CollectPingsRaises(x) ==
    /\ collected = NotCollected
    /\ Collects
    /\ FirstFaulty(ping_providers) # 0
    /\ collected' = [state |-> "raised", frags |-> <<>>, exc |-> x]
    /\ provCalls' = provCalls + FirstFaulty(ping_providers)
    /\ provInvoked' =
          provInvoked \o SubSeq(ping_providers, 1, FirstFaulty(ping_providers))
    /\ UNCHANGED <<DEBUG, PING, ping_providers, callVars, log, regCalls>>

NextRegistry ==
    \/ \E fn \in ProviderFns : RegisterProvider(fn)
    \/ CollectPingsReturns
    \/ \E x \in Raisable : CollectPingsRaises(x)

SpecRegistry == InitRegistry /\ [][NextRegistry]_vars

-----------------------------------------------------------------------------
(* The log sink called directly: LogManager and the two handlers *)

\* The most add_info_log / add_error_log calls of a behaviour.
MaxLogCalls == 3

\* The messages the calls pass.
Messages == {"PING", "TRIGGER"}

\* The record adapter.info(message) / adapter.error(message) creates.
RecordOf(level, m) == [level |-> level, tag |-> m, attempt |-> 0, exc |-> NoExc]

\* No wrapped call has started.
CallAtRest ==
    /\ pc = "idle"
    /\ exc = NoExc
    /\ tout = NoOutcome
    /\ hout = NoOutcome
    /\ result = NoOutcome
    /\ invoked = <<>>
    /\ targetRuns = 0
    /\ provCalls = 0
    /\ retries = DefaultRetries
    /\ attempt_number = 0
    /\ fb = <<>>
    /\ provInvoked = <<>>

\* The state after configure_toolbox_logging: both handlers attached, nothing
\* emitted.
InitSink ==
    /\ DEBUG \in BOOLEAN
    /\ PING \in BOOLEAN
    /\ ping_providers = <<>>
    /\ handlers = <<>>
    /\ CallAtRest
    /\ log = <<>>
    /\ regCalls = <<>>
    /\ collected = NotCollected
    /\ fault = "none"
    /\ sinkCalls = <<>>
    /\ DefaultCall

callState == <<callInput, pc, exc, tout, hout, result, invoked, targetRuns, provCalls,
               provInvoked, retryState>>

\* log_manager.add_info_log(m)
AddInfoLog(m) ==
    /\ Len(sinkCalls) < MaxLogCalls
    /\ sinkCalls' = Append(sinkCalls, [op |-> "add_info_log", message |-> m])
    /\ log' = add_info_log(log, RecordOf("INFO", m))
    /\ UNCHANGED <<config, registryVars, callState, composeVars, storageVars, otherVars>>

\* log_manager.add_error_log(m)
AddErrorLog(m) ==
    /\ Len(sinkCalls) < MaxLogCalls
    /\ sinkCalls' = Append(sinkCalls, [op |-> "add_error_log", message |-> m])
    /\ log' = add_error_log(log, RecordOf("ERROR", m))
    /\ UNCHANGED <<config, registryVars, callState, composeVars, storageVars, otherVars>>

NextSink ==
    \/ \E m \in Messages : AddInfoLog(m)
    \/ \E m \in Messages : AddErrorLog(m)

SpecSink == InitSink /\ [][NextSink]_vars

-----------------------------------------------------------------------------
(* A wrapped call while a log destination is failing *)

InitFault ==
    /\ DEBUG \in BOOLEAN
    /\ PING \in BOOLEAN
    /\ ping_providers \in Registries
    /\ handlers \in Tables
    /\ CallAtRest
    /\ log = <<>>
    /\ regCalls = <<>>
    /\ collected = NotCollected
    /\ fault \in Faults
    /\ sinkCalls = <<>>
    /\ DefaultCall

SpecFault == InitFault /\ [][Next]_vars

-----------------------------------------------------------------------------
(* A wrapped call of any function with any arguments *)

\* The longest positional argument list.
MaxArgs == 2

ArgTuples == UNION {[1..n -> ArgValues] : n \in 0..MaxArgs}
KwargDicts == {{}} \cup {{<<"key", v>>} : v \in ArgValues}

\* One table whose catch-all entry takes every failure to the handler; no
\* provider, or one that raises.
InitArgs ==
    /\ DEBUG \in BOOLEAN
    /\ PING \in BOOLEAN
    /\ ping_providers \in {<<>>, <<"faulty">>}
    /\ handlers = <<"Exception">>
    /\ CallAtRest
    /\ log = <<>>
    /\ regCalls = <<>>
    /\ collected = NotCollected
    /\ fault = "none"
    /\ sinkCalls = <<>>
    /\ func \in Funcs
    /\ args \in ArgTuples
    /\ kwargs \in KwargDicts
    /\ context = NoContext
    /\ fbArgs = <<>>
    /\ payload = NoPayload
    /\ ComposerAtRest
    /\ StorageAtRest
    /\ OthersAtRest

SpecArgs == InitArgs /\ [][Next]_vars

-----------------------------------------------------------------------------
(* A wrapped call under any registry of three providers *)

\* The registries of distinct callables, in any order.
FullRegistries ==
    {s \in UNION {[1..n -> ProviderFns] : n \in 0..Cardinality(ProviderFns)} :
        \A i, j \in 1..Len(s) : i # j => s[i] # s[j]}

InitPing ==
    /\ DEBUG \in BOOLEAN
    /\ PING \in BOOLEAN
    /\ ping_providers \in FullRegistries
    /\ handlers = <<"Exception">>
    /\ CallAtRest
    /\ log = <<>>
    /\ regCalls = <<>>
    /\ collected = NotCollected
    /\ fault = "none"
    /\ sinkCalls = <<>>
    /\ func \in Funcs
    /\ args = <<>>
    /\ kwargs = {}
    /\ context = NoContext
    /\ fbArgs = <<>>
    /\ payload = NoPayload
    /\ ComposerAtRest
    /\ StorageAtRest
    /\ OthersAtRest

SpecPing == InitPing /\ [][Next]_vars

-----------------------------------------------------------------------------
(* The decorator composer: the ToolBox of src/src/aop_error_handler *)

\* The features registered on the composed ToolBox.
Features == {"func_a", "track_time"}

\* What the class LogManager defines.
LogManagerMethods == {"__init__", "_make_adapter", "add_info_log", "add_error_log"}

\* What looking a method up on a LogManager raises when the class lacks it.
AttributeError(m) == [type |-> "AttributeError", msg |-> m]

\* log_manager.<m>(): NoOutcome stands for a call that went through.
CallLogManager(m) ==
    IF m \in LogManagerMethods THEN NoOutcome ELSE Raised(AttributeError(m))

\* A final_wrapper that calls no method of the sink after func.
final_wrapper_returns(res) == res

\* final_wrapper: result = func(...); self.log_manager.display_logs();
\* return result.
final_wrapper(res) ==
    IF CallLogManager("display_logs").kind = "raise"
    THEN CallLogManager("display_logs")
    ELSE res

\* One entry of an invocation's trace: a hook of a feature or the target "T";
\* the result it received or produced; the start time it wrote or read.
Event(hook, f, o, time) == [hook |-> hook, feature |-> f, result |-> o, time |-> time]

\* The message a feature's hook hands to add_info_log.
HookMessage(hook, f) ==
    IF f = "track_time" THEN "seconds."
    ELSE IF hook = "pre" THEN "func_a() is decorating the function"
    ELSE "func_a() post-processing"

InitCompose ==
    /\ DEBUG \in BOOLEAN
    /\ PING \in BOOLEAN
    /\ ping_providers = <<>>
    /\ handlers = <<>>
    /\ CallAtRest
    /\ log = <<>>
    /\ regCalls = <<>>
    /\ collected = NotCollected
    /\ fault = "none"
    /\ sinkCalls = <<>>
    /\ DefaultCall

outsideCompose == <<config, registryVars, sinkVars, callState, acc, otherVars>>

\* toolbox.func_a() / toolbox.track_time(): _create_feature_decorator appends
\* the feature's decorator; each feature is registered at most once here.
RegisterFeature(f) ==
    /\ ~wrapped.made
    /\ f \notin Range(decorators)
    /\ decorators' = Append(decorators, f)
    /\ UNCHANGED <<outsideCompose, storage, instances, log, wrapped, state, start_time, clock, inv>>

\* toolbox(func): __call__ stores the ping under both flags and folds the
\* decorators, last registered innermost, around func.
Wrap ==
    /\ ~wrapped.made
    /\ wrapped' = [made |-> TRUE, chain |-> decorators]
    /\ state' = IF DEBUG /\ PING THEN state \cup {"func_ping"} ELSE state
    /\ UNCHANGED <<outsideCompose, storage, instances, log, decorators, start_time, clock, inv>>

\* A thread calls the composed function: final_wrapper enters the outermost
\* wrapper.
ComposedCall(t) ==
    /\ wrapped.made
    /\ inv[t].pc = "idle"
    /\ inv' = [inv EXCEPT ![t].pc = "pre", ![t].idx = 1]
    /\ UNCHANGED <<outsideCompose, storage, instances, log, decorators, wrapped, state, start_time, clock>>

\* wrapper of the next feature inwards: pre_logic(self, *args, **kwargs).
PreHook(t) ==
    /\ inv[t].pc = "pre"
    /\ inv[t].idx <= Len(wrapped.chain)
    /\ LET f == wrapped.chain[inv[t].idx] IN
        IF f = "track_time"
        THEN /\ start_time' = clock
             /\ clock' = clock + 1
             /\ inv' = [inv EXCEPT ![t].idx = @ + 1,
                           ![t].trace = Append(@, Event("pre", f, NoOutcome, clock))]
             /\ UNCHANGED <<log, storage, instances>>
        ELSE /\ EnsureLogManager(t)
             /\ log' = add_info_log(log, RecordOf("INFO", HookMessage("pre", f)))
             /\ inv' = [inv EXCEPT ![t].idx = @ + 1,
                           ![t].trace = Append(@, Event("pre", f, NoOutcome, 0))]
             /\ UNCHANGED <<start_time, clock>>
    /\ UNCHANGED <<outsideCompose, decorators, wrapped, state>>

\* The innermost wrapper's func(*args, **kwargs) is the target: it returns v.
ComposedTargetReturns(t, v) ==
    /\ inv[t].pc = "pre"
    /\ inv[t].idx = Len(wrapped.chain) + 1
    /\ inv' = [inv EXCEPT ![t].pc = "post", ![t].idx = Len(wrapped.chain),
                  ![t].res = Returned(v), ![t].runs = @ + 1,
                  ![t].trace = Append(@, Event("T", "T", Returned(v), 0))]
    /\ UNCHANGED <<outsideCompose, storage, instances, log, decorators, wrapped, state, start_time, clock>>

\* The target raises x, which leaves every wrapper and final_wrapper.
ComposedTargetRaises(t, x) ==
    /\ inv[t].pc = "pre"
    /\ inv[t].idx = Len(wrapped.chain) + 1
    /\ inv' = [inv EXCEPT ![t].pc = "done", ![t].result = Raised(x),
                  ![t].runs = @ + 1,
                  ![t].trace = Append(@, Event("T", "T", Raised(x), 0))]
    /\ UNCHANGED <<outsideCompose, storage, instances, log, decorators, wrapped, state, start_time, clock>>

\* Back in a wrapper: post_logic(self, result, *args, **kwargs); track_time's
\* reads _start_time.
PostHook(t) ==
    /\ inv[t].pc = "post"
    /\ inv[t].idx >= 1
    /\ LET f == wrapped.chain[inv[t].idx] IN
        /\ EnsureLogManager(t)
        /\ log' = add_info_log(log, RecordOf("INFO", HookMessage("post", f)))
        /\ inv' = [inv EXCEPT ![t].idx = @ - 1,
                      ![t].trace = Append(@, Event("post", f, inv[t].res,
                                      IF f = "track_time" THEN start_time ELSE 0))]
    /\ UNCHANGED <<outsideCompose, decorators, wrapped, state, start_time, clock>>

\* The outermost wrapper has returned into final_wrapper, which reads
\* self.log_manager and calls display_logs on it.
FinalWrapper(t) ==
    /\ inv[t].pc = "post"
    /\ inv[t].idx = 0
    /\ EnsureLogManager(t)
    /\ inv' = [inv EXCEPT ![t].pc = "done", ![t].result = final_wrapper(inv[t].res)]
    /\ UNCHANGED <<outsideCompose, log, decorators, wrapped, state, start_time, clock>>

NextCompose ==
    \/ \E f \in Features : RegisterFeature(f)
    \/ Wrap
    \/ \E t \in Threads : ComposedCall(t)
    \/ \E t \in Threads : PreHook(t)
    \/ \E t \in Threads, v \in Vals : ComposedTargetReturns(t, v)
    \/ \E t \in Threads, x \in Raisable : ComposedTargetRaises(t, x)
    \/ \E t \in Threads : PostHook(t)
    \/ \E t \in Threads : FinalWrapper(t)

SpecCompose == InitCompose /\ [][NextCompose]_vars

-----------------------------------------------------------------------------
(* The decorator composer with hooks that raise *)

\* A wrapper that goes on to the post-hooks after its pre_logic raised.
OnPreRaiseRunsPostHooks(x) == [pc |-> "post", result |-> Raised(x)]

\* wrapper has no try: what pre_logic raises leaves it, and every wrapper
\* around it, and final_wrapper, at once.
OnPreRaise(x) == [pc |-> "done", result |-> Raised(x)]

\* A wrapper that lets the remaining post-hooks run after post_logic raised.
OnPostRaiseRunsPostHooks(x) == [pc |-> "post", result |-> Raised(x)]

\* What post_logic raises leaves wrapper before "return result", and is what
\* the enclosing wrapper's func(*args, **kwargs) raises.
OnPostRaise(x) == [pc |-> "done", result |-> Raised(x)]

\* pre_logic(self, *args, **kwargs) raises x.
PreHookRaises(t, x) ==
    /\ inv[t].pc = "pre"
    /\ inv[t].idx <= Len(wrapped.chain)
    /\ inv' = [inv EXCEPT ![t].pc = OnPreRaise(x).pc,
                  ![t].result = OnPreRaise(x).result,
                  ![t].idx = @ - 1,
                  ![t].trace = Append(@, Event("pre", wrapped.chain[inv[t].idx],
                                               Raised(x), 0))]
    /\ UNCHANGED <<outsideCompose, storage, instances, log, decorators, wrapped,
                   state, start_time, clock>>

\* post_logic(self, result, *args, **kwargs) raises x.
PostHookRaises(t, x) ==
    /\ inv[t].pc = "post"
    /\ inv[t].idx >= 1
    /\ inv' = [inv EXCEPT ![t].pc = OnPostRaise(x).pc,
                  ![t].result = OnPostRaise(x).result,
                  ![t].idx = @ - 1,
                  ![t].trace = Append(@, Event("post", wrapped.chain[inv[t].idx],
                                               Raised(x), 0))]
    /\ UNCHANGED <<outsideCompose, storage, instances, log, decorators, wrapped,
                   state, start_time, clock>>

NextHooks ==
    \/ \E f \in Features : RegisterFeature(f)
    \/ Wrap
    \/ \E t \in Threads : ComposedCall(t)
    \/ \E t \in Threads : PreHook(t)
    \/ \E t \in Threads, x \in Raisable : PreHookRaises(t, x)
    \/ \E t \in Threads, v \in Vals : ComposedTargetReturns(t, v)
    \/ \E t \in Threads, x \in Raisable : ComposedTargetRaises(t, x)
    \/ \E t \in Threads : PostHook(t)
    \/ \E t \in Threads, x \in Raisable : PostHookRaises(t, x)
    \/ \E t \in Threads : FinalWrapper(t)

SpecHooks == InitCompose /\ [][NextHooks]_vars

-----------------------------------------------------------------------------
(* The per-thread sink: the log_manager property on ToolBox._storage *)

\* The most log_manager accesses of one thread.
MaxAccesses == 2

\* The ToolBox instances the property is read on.
ToolBoxes == {"_light_tb", "toolbox"}

InitStorage ==
    /\ DEBUG \in BOOLEAN
    /\ PING \in BOOLEAN
    /\ ping_providers = <<>>
    /\ handlers = <<>>
    /\ CallAtRest
    /\ log = <<>>
    /\ regCalls = <<>>
    /\ collected = NotCollected
    /\ fault = "none"
    /\ sinkCalls = <<>>
    /\ DefaultCall

outsideStorage == <<config, registryVars, sinkVars, callState, composeVars, log,
                    otherVars>>

\* A thread reads b.log_manager: the property's getter starts.
AccessLogManager(t, b) ==
    /\ acc[t].pc = "idle"
    /\ Len(acc[t].got) < MaxAccesses
    /\ acc' = [acc EXCEPT ![t].pc = "hasattr", ![t].toolbox = b]
    /\ UNCHANGED <<outsideStorage, storage, instances>>

\* if not hasattr(self._storage, 'log_manager')
Hasattr(t) ==
    /\ acc[t].pc = "hasattr"
    /\ acc' = [acc EXCEPT ![t].pc =
                  IF storage[StorageSlot(t)] = 0 THEN "create" ELSE "return"]
    /\ UNCHANGED <<outsideStorage, storage, instances>>

\* self._storage.log_manager = LogManager()
CreateLogManager(t) ==
    /\ acc[t].pc = "create"
    /\ instances' = instances + 1
    /\ storage' = [storage EXCEPT ![StorageSlot(t)] = instances + 1]
    /\ acc' = [acc EXCEPT ![t].pc = "return"]
    /\ UNCHANGED outsideStorage

\* return self._storage.log_manager
ReturnLogManager(t) ==
    /\ acc[t].pc = "return"
    /\ acc' = [acc EXCEPT ![t].pc = "idle",
                  ![t].got = Append(@, [instance |-> storage[StorageSlot(t)],
                                        toolbox |-> acc[t].toolbox])]
    /\ UNCHANGED <<outsideStorage, storage, instances>>

NextStorage ==
    \/ \E t \in Threads, b \in ToolBoxes : AccessLogManager(t, b)
    \/ \E t \in Threads : Hasattr(t)
    \/ \E t \in Threads : CreateLogManager(t)
    \/ \E t \in Threads : ReturnLogManager(t)

SpecStorage == InitStorage /\ [][NextStorage]_vars

-----------------------------------------------------------------------------
(* register_provider called from two threads *)

\* The most register_provider calls of one thread.
MaxRaceCalls == 2

outsideRace == <<DEBUG, PING, handlers, fault, func, args, kwargs, callState, log,
                 registryVars, sinkVars, composeVars, storageVars, viewVars,
                 handlerVars, lightVars, loggingVars>>

\* register_provider(fn) up to the test "fn not in cls.ping_providers": the
\* thread goes on to the append, or returns.
RegisterTest(t, fn) ==
    /\ reg[t].pc = "idle"
    /\ reg[t].calls < MaxRaceCalls
    /\ reg' = [reg EXCEPT ![t].pc = IF fn \notin Range(ping_providers)
                                    THEN "append" ELSE "idle",
                  ![t].fn = fn,
                  ![t].calls = @ + 1]
    /\ UNCHANGED <<outsideRace, ping_providers>>

\* cls.ping_providers.append(fn)
RegisterAppend(t) ==
    /\ reg[t].pc = "append"
    /\ ping_providers' = Append(ping_providers, reg[t].fn)
    /\ reg' = [reg EXCEPT ![t].pc = "idle"]
    /\ UNCHANGED outsideRace

NextRace ==
    \/ \E t \in Threads, fn \in ProviderFns : RegisterTest(t, fn)
    \/ \E t \in Threads : RegisterAppend(t)

SpecRace == InitRegistry /\ [][NextRace]_vars

-----------------------------------------------------------------------------
(* cfehome/views.py: home_view rerouted to home_2view, on two threads *)

\* The most home_view requests of one thread.
MaxRequests == 2

\* retries=2 in home_view's handler table.
ViewRetries == 2

\* raise ValueError("Oops") in home_view, raise ValueError("Oops!") in home_2view
Oops == [type |-> "ValueError", msg |-> "Oops"]
OopsBang == [type |-> "ValueError", msg |-> "Oops!"]

\* What about_view(request, *args, **kwargs) returns: the rendered page.
about_view_response == Returned(1)

\* After ToolboxConfig.ready: the built-in provider is registered; home_view's
\* table has the one key ValueError.
InitViews ==
    /\ DEBUG \in BOOLEAN
    /\ PING \in BOOLEAN
    /\ ping_providers = <<"default">>
    /\ handlers = <<"ValueError">>
    /\ CallAtRest
    /\ log = <<>>
    /\ regCalls = <<>>
    /\ collected = NotCollected
    /\ fault = "none"
    /\ sinkCalls = <<>>
    /\ DefaultCall

outsideViews == <<config, pc, exc, tout, hout, result, invoked, targetRuns,
                  retryState, context, fbArgs, registryVars, sinkVars, composeVars,
                  acc, raceVars, handlerVars, lightVars, loggingVars>>

\* A request reaches home_view: the ping layer, the target's ValueError, the
\* except block with its TRIGGER record and lookup, the lambda, which builds a
\* handler with reroute_with_retry and calls it: attempt 1 of home_2view starts.
HomeViewFails(t) ==
    /\ req[t].pc = "idle"
    /\ Len(req[t].results) < MaxRequests
    /\ SelectHandler(handlers, Oops) # 0
    /\ EnsureLogManager(t)
    /\ IF PING
       THEN /\ provCalls' = provCalls + Len(ping_providers)
            /\ provInvoked' = provInvoked \o ping_providers
            /\ payload' = [called |-> TRUE,
                           message |-> JoinMessages(Payloads(ping_providers), Len(ping_providers)),
                           context |-> MergeContext(Payloads(ping_providers), Len(ping_providers))]
       ELSE UNCHANGED <<provCalls, provInvoked, payload>>
    /\ log' = add_error_log(IF PING THEN add_info_log(log, InfoRecord) ELSE log,
                            TriggerRecord(Oops))
    /\ req' = [req EXCEPT ![t].pc = "test", ![t].attempt = 1]
    /\ UNCHANGED <<outsideViews, number>>

\* home_2view: "if not number" is evaluated.
H2Test(t) ==
    /\ req[t].pc = "test"
    /\ req' = [req EXCEPT ![t].pc = IF number = 0 THEN "raise" ELSE "return"]
    /\ UNCHANGED <<outsideViews, number, log, storage, instances, provCalls,
                   provInvoked, payload>>

\* home_2view: number = 1; raise ValueError("Oops!"). tenacity stops, and the
\* exception leaves handler, the lambda and wrapper; or _before_sleep logs and
\* the wait starts.
H2Raise(t) ==
    /\ req[t].pc = "raise"
    /\ number' = 1
    /\ IF stop_after_attempt(ViewRetries, req[t].attempt)
       THEN /\ req' = [req EXCEPT ![t].pc = "idle", ![t].attempt = 0,
                          ![t].results = Append(@, Raised(OopsBang))]
            /\ UNCHANGED <<log, storage, instances>>
       ELSE /\ EnsureLogManager(t)
            /\ log' = add_error_log(log, RetryRecord(req[t].attempt, OopsBang))
            /\ req' = [req EXCEPT ![t].pc = "sleep"]
    /\ UNCHANGED <<outsideViews, provCalls, provInvoked, payload>>

\* wait_fixed(0.1) has passed: the next attempt calls home_2view.
H2Sleep(t) ==
    /\ req[t].pc = "sleep"
    /\ req' = [req EXCEPT ![t].pc = "test", ![t].attempt = @ + 1]
    /\ UNCHANGED <<outsideViews, number, log, storage, instances, provCalls,
                   provInvoked, payload>>

\* home_2view: number = None; return about_view(...), which the handler, the
\* lambda and wrapper return.
H2Return(t) ==
    /\ req[t].pc = "return"
    /\ number' = 0
    /\ req' = [req EXCEPT ![t].pc = "idle", ![t].attempt = 0,
                  ![t].results = Append(@, about_view_response)]
    /\ UNCHANGED <<outsideViews, log, storage, instances, provCalls, provInvoked,
                   payload>>

NextViews ==
    \/ \E t \in Threads : HomeViewFails(t)
    \/ \E t \in Threads : H2Test(t)
    \/ \E t \in Threads : H2Raise(t)
    \/ \E t \in Threads : H2Sleep(t)
    \/ \E t \in Threads : H2Return(t)

SpecViews == InitViews /\ [][NextViews]_vars

-----------------------------------------------------------------------------
(* One reroute_with_retry handler invoked again and again, on two threads *)

\* The most invocations of the handler by one thread.
MaxInvocations == 2

\* The largest retries the shared handler is built with.
MaxHandlerRetries == 2

\* A retry loop that goes on counting from the attempt number the thread's
\* previous invocation ended with.
FirstAttemptCarried(prev) == prev + 1

\* _call_with_retry(*args, **kwargs): tenacity starts every call with a new
\* RetryCallState, whose attempt_number is 1 whatever the call before reached.
FirstAttempt(prev) == 1

\* One handler, built with a positive retries, is shared by the threads.
InitHandler ==
    /\ DEBUG \in BOOLEAN
    /\ PING \in BOOLEAN
    /\ ping_providers = <<>>
    /\ handlers = <<"Exception">>
    /\ pc = "idle"
    /\ exc = NoExc
    /\ tout = NoOutcome
    /\ hout = NoOutcome
    /\ result = NoOutcome
    /\ invoked = <<>>
    /\ targetRuns = 0
    /\ provCalls = 0
    /\ retries \in 1..MaxHandlerRetries
    /\ attempt_number = 0
    /\ fb = <<>>
    /\ provInvoked = <<>>
    /\ log = <<>>
    /\ regCalls = <<>>
    /\ collected = NotCollected
    /\ fault = "none"
    /\ sinkCalls = <<>>
    /\ DefaultCall

outsideHandler == <<config, callInput, pc, exc, tout, hout, result, invoked,
                    targetRuns, provCalls, provInvoked, retryState, registryVars,
                    sinkVars, composeVars, acc, raceVars, viewVars, lightVars,
                    loggingVars>>

\* handler(error, context) is called: _call_with_retry starts its first attempt.
HandlerInvoke(t) ==
    /\ hinv[t].pc = "idle"
    /\ Len(hinv[t].history) < MaxInvocations
    /\ hinv' = [hinv EXCEPT ![t].pc = "attempt",
                   ![t].attempt = FirstAttempt(hinv[t].attempt),
                   ![t].tried = <<>>]
    /\ UNCHANGED <<outsideHandler, log, storage, instances>>

\* The attempt's fallback_func(*args, **kwargs) returns: so does the handler.
HandlerAttemptReturns(t, v) ==
    /\ hinv[t].pc = "attempt"
    /\ hinv' = [hinv EXCEPT ![t].pc = "idle",
                   ![t].tried = Append(@, hinv[t].attempt),
                   ![t].history = Append(@, [tried |-> Append(hinv[t].tried, hinv[t].attempt),
                                             outcome |-> Returned(v)])]
    /\ UNCHANGED <<outsideHandler, log, storage, instances>>

\* The attempt's fallback_func(*args, **kwargs) raises x: tenacity gives up
\* and the handler raises, or _before_sleep logs and the wait starts.
HandlerAttemptRaises(t, x) ==
    /\ hinv[t].pc = "attempt"
    /\ IF ~retry_if_exception(x) \/ stop_after_attempt(retries, hinv[t].attempt)
       THEN /\ hinv' = [hinv EXCEPT ![t].pc = "idle",
                           ![t].tried = Append(@, hinv[t].attempt),
                           ![t].history =
                               Append(@, [tried |-> Append(hinv[t].tried, hinv[t].attempt),
                                          outcome |-> Raised(x)])]
            /\ UNCHANGED <<log, storage, instances>>
       ELSE /\ EnsureLogManager(t)
            /\ log' = add_error_log(log, RetryRecord(hinv[t].attempt, x))
            /\ hinv' = [hinv EXCEPT ![t].pc = "sleep",
                           ![t].tried = Append(@, hinv[t].attempt)]
    /\ UNCHANGED outsideHandler

\* wait_fixed(delay) has passed: the next attempt starts.
HandlerSleep(t) ==
    /\ hinv[t].pc = "sleep"
    /\ hinv' = [hinv EXCEPT ![t].pc = "attempt", ![t].attempt = @ + 1]
    /\ UNCHANGED <<outsideHandler, log, storage, instances>>

NextHandler ==
    \/ \E t \in Threads : HandlerInvoke(t)
    \/ \E t \in Threads : HandlerAttemptReturns(t, 1)
    \/ \E t \in Threads : HandlerAttemptRaises(t, Oops)
    \/ \E t \in Threads : HandlerSleep(t)

SpecHandler == InitHandler /\ [][NextHandler]_vars

-----------------------------------------------------------------------------
(* light_toolbox: the decoration and a call of what it returned *)

\* A light_toolbox that looks at PING alone.
light_toolbox_wraps_on_ping == PING

\* decorator = get_ping_decorator() if (DEBUG and PING) else (lambda f: f)
light_toolbox_wraps == DEBUG /\ PING

\* The two ways of applying it: @light_toolbox and @light_toolbox().
Forms == {"bare", "called"}

InitLight ==
    /\ DEBUG \in BOOLEAN
    /\ PING \in BOOLEAN
    /\ ping_providers \in Registries
    /\ handlers = <<>>
    /\ CallAtRest
    /\ log = <<>>
    /\ regCalls = <<>>
    /\ collected = NotCollected
    /\ fault \in Faults
    /\ sinkCalls = <<>>
    /\ func \in Funcs
    /\ args \in {<<>>, <<"a">>}
    /\ kwargs = {}
    /\ context = NoContext
    /\ fbArgs = <<>>
    /\ payload = NoPayload
    /\ ComposerAtRest
    /\ StorageAtRest
    /\ OthersAtRest

outsideLight == <<config, exc, hout, invoked, retryState, context, fbArgs,
                  registryVars, sinkVars, composeVars, acc, raceVars, viewVars,
                  handlerVars, loggingVars>>

\* light_toolbox(func), or light_toolbox()(func): either way decorator(func),
\* which is func itself unless both flags are on.
LightDecorate(form) ==
    /\ ~light.made
    /\ light' = [made |-> TRUE, form |-> form, wrapper |-> light_toolbox_wraps]
    /\ UNCHANGED <<outsideLight, pc, tout, result, targetRuns, targetArgs, log,
                   storage, instances, provCalls, provInvoked, payload>>

\* The decorated function is called: wrapped() starts, or func itself.
LightCall ==
    /\ light.made
    /\ pc = "idle"
    /\ pc' = IF light.wrapper THEN "pings" ELSE "target"
    /\ UNCHANGED <<outsideLight, light, tout, result, targetRuns, targetArgs, log,
                   storage, instances, provCalls, provInvoked, payload>>

\* wrapped(): with PING off straight to func; else every provider is called
\* and one add_info_log follows, and what that raises leaves wrapped().
LightPings ==
    /\ pc = "pings"
    /\ ~PING \/ FirstFaulty(ping_providers) = 0
    /\ IF ~PING
       THEN /\ pc' = "target"
            /\ UNCHANGED <<result, log, storage, instances, provCalls, provInvoked,
                           payload>>
       ELSE /\ provCalls' = provCalls + Len(ping_providers)
            /\ provInvoked' = provInvoked \o ping_providers
            /\ payload' = [called |-> TRUE,
                           message |-> JoinMessages(Payloads(ping_providers), Len(ping_providers)),
                           context |-> MergeContext(Payloads(ping_providers), Len(ping_providers))]
            /\ EnsureLogManager(CallThread)
            /\ log' = add_info_log(log, InfoRecord)
            /\ IF EmitRaises(log, log')
               THEN /\ result' = Raised(LoggingFault)
                    /\ pc' = "done"
               ELSE /\ pc' = "target"
                    /\ UNCHANGED result
    /\ UNCHANGED <<outsideLight, light, tout, targetRuns, targetArgs>>

\* wrapped(): a provider raises x, which leaves wrapped() to the caller.
LightPingRaises(x) ==
    /\ pc = "pings"
    /\ PING
    /\ FirstFaulty(ping_providers) # 0
    /\ provCalls' = provCalls + FirstFaulty(ping_providers)
    /\ provInvoked' =
          provInvoked \o SubSeq(ping_providers, 1, FirstFaulty(ping_providers))
    /\ result' = Raised(x)
    /\ pc' = "done"
    /\ UNCHANGED <<outsideLight, light, tout, targetRuns, targetArgs, log, storage,
                   instances, payload>>

\* func(*args, **kwargs) returns v.
LightTargetReturns(v) ==
    /\ pc = "target"
    /\ targetRuns' = targetRuns + 1
    /\ targetArgs' = Append(targetArgs, [args |-> args, kwargs |-> kwargs])
    /\ tout' = Returned(v)
    /\ result' = tout'
    /\ pc' = "done"
    /\ UNCHANGED <<outsideLight, light, log, storage, instances, provCalls,
                   provInvoked, payload>>

\* func(*args, **kwargs) raises x.
LightTargetRaises(x) ==
    /\ pc = "target"
    /\ targetRuns' = targetRuns + 1
    /\ targetArgs' = Append(targetArgs, [args |-> args, kwargs |-> kwargs])
    /\ tout' = Raised(x)
    /\ result' = tout'
    /\ pc' = "done"
    /\ UNCHANGED <<outsideLight, light, log, storage, instances, provCalls,
                   provInvoked, payload>>

NextLight ==
    \/ \E form \in Forms : LightDecorate(form)
    \/ LightCall
    \/ LightPings
    \/ \E x \in Raisable : LightPingRaises(x)
    \/ \E v \in Vals : LightTargetReturns(v)
    \/ \E x \in Raisable : LightTargetRaises(x)

SpecLight == InitLight /\ [][NextLight]_vars

-----------------------------------------------------------------------------
(* configure_toolbox_logging and what the "toolbox" logger's handlers render *)

\* How many times configure_toolbox_logging is called.
MaxConfigCalls == 2

\* A configure_toolbox_logging without the "if logger.handlers: return".
configure_toolbox_logging_unguarded(hs) == hs \o <<"console", "file">>

\* logger.handlers after configure_toolbox_logging found it as hs.
configure_toolbox_logging(hs) ==
    IF hs # <<>> THEN hs ELSE <<"console", "file">>

\* One handler handles a record: the console handler renders it when its
\* filter passes it, the file handler renders it always.
Handle(r, h, rec) ==
    CASE h = "console" ->
            IF ConsoleFilter(rec) THEN [r EXCEPT !.console = Append(@, rec)] ELSE r
      [] h = "file" -> [r EXCEPT !.file = Append(@, rec)]

\* Logger.callHandlers: the first n handlers of hs handle the record in turn.
RECURSIVE CallHandlers(_, _, _, _)
CallHandlers(r, hs, n, rec) ==
    IF n = 0 THEN r ELSE Handle(CallHandlers(r, hs, n - 1, rec), hs[n], rec)

\* What is rendered once the emitted records went from l to l2.
Rendered(r, hs, l, l2) ==
    IF l2 = l THEN r ELSE CallHandlers(r, hs, Len(hs), l2[Len(l2)])

InitLogging ==
    /\ DEBUG \in BOOLEAN
    /\ PING \in BOOLEAN
    /\ ping_providers = <<>>
    /\ handlers = <<>>
    /\ CallAtRest
    /\ log = <<>>
    /\ regCalls = <<>>
    /\ collected = NotCollected
    /\ fault = "none"
    /\ sinkCalls = <<>>
    /\ DefaultCall

outsideLogging == <<config, registryVars, callState, composeVars, storageVars,
                    raceVars, viewVars, handlerVars, lightVars>>

\* ToolboxConfig.ready, or any other caller, calls configure_toolbox_logging.
Configure ==
    /\ configCalls < MaxConfigCalls
    /\ configCalls' = configCalls + 1
    /\ loggerHandlers' = configure_toolbox_logging(loggerHandlers)
    /\ UNCHANGED <<outsideLogging, log, sinkCalls, rendered>>

\* log_manager.add_info_log(m) on the configured logger.
LoggerInfo(m) ==
    /\ configCalls >= 1
    /\ Len(sinkCalls) < MaxLogCalls
    /\ sinkCalls' = Append(sinkCalls, [op |-> "add_info_log", message |-> m])
    /\ log' = add_info_log(log, RecordOf("INFO", m))
    /\ rendered' = Rendered(rendered, loggerHandlers, log, log')
    /\ UNCHANGED <<outsideLogging, loggerHandlers, configCalls>>

\* log_manager.add_error_log(m) on the configured logger.
LoggerError(m) ==
    /\ configCalls >= 1
    /\ Len(sinkCalls) < MaxLogCalls
    /\ sinkCalls' = Append(sinkCalls, [op |-> "add_error_log", message |-> m])
    /\ log' = add_error_log(log, RecordOf("ERROR", m))
    /\ rendered' = Rendered(rendered, loggerHandlers, log, log')
    /\ UNCHANGED <<outsideLogging, loggerHandlers, configCalls>>

NextLogging ==
    \/ Configure
    \/ \E m \in Messages : LoggerInfo(m)
    \/ \E m \in Messages : LoggerError(m)

SpecLogging == InitLogging /\ [][NextLogging]_vars

-----------------------------------------------------------------------------
(* What the claims read off a state *)

ErrorRecords(l) == SelectSeq(l, LAMBDA r : r.level = "ERROR")
TriggerRecords(l) == SelectSeq(l, LAMBDA r : r.tag = "TRIGGER")
RetryRecords(l) == SelectSeq(l, LAMBDA r : r.tag = "RETRY")

\* The call has failed: wrapper's except block has run for exception exc.
Failed == exc # NoExc /\ pc # "caught"

\* The invoked handler was one built by reroute_with_retry.
Rerouted == attempt_number > 0

\* No key of the table matches exception e.
NoKeyMatches(e) == \A j \in 1..Len(handlers) : ~isinstance(e, handlers[j])

\* The retry entries in the log are n, the i-th carrying attempt number i and
\* the exception of the i-th attempt.
RetryEntriesAre(n) ==
    /\ Len(RetryRecords(log)) = n
    /\ \A i \in 1..n :
          /\ RetryRecords(log)[i].attempt = i
          /\ RetryRecords(log)[i].exc = fb[i].exc

-----------------------------------------------------------------------------
(* C1..C10: the dispatcher and retry recovery *)

\* C1: the handler that is invoked for the caught exception is the first
\* entry, in the table's insertion order, whose key type the exception is an
\* instance of; no later entry and no non-matching entry is invoked.
C1_FirstMatchInvoked ==
    /\ Len(invoked) <= 1
    /\ \A n \in 1..Len(invoked) :
          /\ invoked[n] \in 1..Len(handlers)
          /\ isinstance(exc, handlers[invoked[n]])
          /\ \A j \in 1..(invoked[n] - 1) : ~isinstance(exc, handlers[j])

\* A KeyError was dispatched to the second of three entries: the first does
\* not match it, the third does as well.
C1_Witness ==
    /\ invoked = <<2>>
    /\ Len(handlers) = 3
    /\ ~isinstance(exc, handlers[1])
    /\ isinstance(exc, handlers[3])

\* C2: the entry keyed Exception is a last resort wherever it sits: its
\* handler is invoked for the exception the target raised only when no other
\* entry of the table matches that exception.
C2_CatchAllOnlyLastResort ==
    \A n \in 1..Len(invoked) :
        (tout = Raised(exc) /\ handlers[invoked[n]] = "Exception") =>
            \A j \in 1..Len(handlers) :
                j # invoked[n] => ~isinstance(exc, handlers[j])

\* C3 as claimed: with DEBUG on, a call whose target raised an Exception has
\* emitted exactly one ERROR record when it ends, whatever the handler is.
C3_ExactlyOneErrorRecord ==
    (pc = "done" /\ DEBUG /\ Failed /\ tout = Raised(exc)) =>
        Len(ErrorRecords(log)) = 1

\* C3 as amended: with DEBUG on, a failed call has emitted exactly one
\* TRIGGER record when it ends, and that is its only ERROR record unless the
\* handler was built by reroute_with_retry, which adds one ERROR record for
\* every attempt but the last.
C3_OneTriggerPlusRetries ==
    (pc = "done" /\ DEBUG /\ Failed) =>
        /\ Len(TriggerRecords(log)) = 1
        /\ Len(ErrorRecords(log)) = 1 + (IF fb = <<>> THEN 0 ELSE Len(fb) - 1)
        /\ (~Rerouted => Len(ErrorRecords(log)) = 1)

\* A failed call whose retry handler made three attempts: three ERROR records.
C3_Witness ==
    /\ pc = "done"
    /\ DEBUG
    /\ Failed
    /\ Len(fb) = 3
    /\ Len(ErrorRecords(log)) = 3

\* C4: a handler built with retries <= 0, invoked for the exception the
\* target raised, never calls the fallback and never returns a fallback
\* result.
C4_NonPositiveRetriesRejected ==
    (Rerouted /\ retries <= 0 /\ tout = Raised(exc)) =>
        (fb = <<>> /\ hout.kind # "return")

\* C5: with retries = n >= 1 and a fallback that raises an Exception on every
\* attempt, the handler has called the fallback exactly n times when it ends,
\* and raises the exception of the n-th attempt, not a RetryError.
C5_ExhaustionRaisesLast ==
    (/\ pc = "done"
     /\ Rerouted
     /\ retries >= 1
     /\ \A i \in 1..Len(fb) :
           fb[i].kind = "raise" /\ isinstance(fb[i].exc, "Exception"))
    => /\ Len(fb) = retries
       /\ hout = Raised(fb[retries].exc)
       /\ result = hout
       /\ result.exc.type # "RetryError"

\* retries = 2, a ValueError then a KeyError: the KeyError is raised.
C5_Witness ==
    /\ pc = "done"
    /\ retries = 2
    /\ Len(fb) = 2
    /\ fb[1] = Raised([type |-> "ValueError", msg |-> "Oops"])
    /\ fb[2] = Raised([type |-> "KeyError", msg |-> "k"])
    /\ result = fb[2]

\* C6: with retries = n >= 1 and a fallback that raises an Exception on its
\* first k attempts and then returns v, the handler returns v after k+1
\* attempts with k < n; no attempt follows a success; and with DEBUG on the
\* retry entries are exactly one per failed attempt, the i-th carrying attempt
\* number i and that attempt's exception, each emitted before the next
\* attempt starts.
C6_SuccessAfterFailures ==
    /\ \A i \in 1..Len(fb) :
          fb[i].kind = "return" => (i = Len(fb) /\ pc = "done")
    /\ (pc = "attempt" /\ DEBUG) =>
          /\ Len(fb) = attempt_number - 1
          /\ RetryEntriesAre(attempt_number - 1)
    /\ (/\ pc = "done"
        /\ Rerouted
        /\ retries >= 1
        /\ fb[Len(fb)].kind = "return")
       => /\ result = Returned(fb[Len(fb)].val)
          /\ Len(fb) - 1 < retries
          /\ \A i \in 1..(Len(fb) - 1) :
                fb[i].kind = "raise" /\ isinstance(fb[i].exc, "Exception")
          /\ DEBUG => RetryEntriesAre(Len(fb) - 1)
          /\ ~DEBUG => RetryRecords(log) = <<>>

\* retries = 3, two failed attempts, then a value: two retry entries.
C6_Witness ==
    /\ pc = "done"
    /\ DEBUG
    /\ retries = 3
    /\ Len(fb) = 3
    /\ fb[3] = Returned(2)
    /\ result = Returned(2)
    /\ Len(RetryRecords(log)) = 2

\* C7: when no key of the table matches the caught exception, the call raises
\* that exception, type and message unchanged, and no handler is invoked.
C7_NoMatchReraises ==
    (pc = "done" /\ Failed /\ NoKeyMatches(exc)) =>
        /\ result = Raised(exc)
        /\ (targetRuns = 1 => result = tout)
        /\ invoked = <<>>
        /\ hout = NoOutcome

\* A ValueError from the target meets a table that holds only LookupError.
C7_Witness ==
    /\ pc = "done"
    /\ handlers = <<"LookupError">>
    /\ tout = Raised([type |-> "ValueError", msg |-> "Oops"])
    /\ result = tout

\* C8: when the selected handler returns r, the call returns r and raises
\* nothing, and that handler's invocation is the only one.
C8_HandlerReturnReplaces ==
    (pc = "done" /\ hout.kind = "return") =>
        /\ result = hout
        /\ Len(invoked) = 1

\* A target that raised, and an ordinary handler that returned 2.
C8_Witness ==
    /\ pc = "done"
    /\ tout.kind = "raise"
    /\ ~Rerouted
    /\ hout = Returned(2)
    /\ result = Returned(2)

\* C9: a failed call invokes at most one handler, once; when that handler
\* raises X the call raises X as it is, and nothing else is invoked.
C9_SingleHandlerInvocation ==
    /\ Len(invoked) <= 1
    /\ (Failed /\ SelectHandler(handlers, exc) # 0) => Len(invoked) = 1
    /\ (pc = "done" /\ hout.kind = "raise") =>
          /\ result = hout
          /\ Len(invoked) = 1

\* The handler chosen for a ValueError raised a KeyError, though the table
\* holds a later entry that matches a KeyError.
C9_Witness ==
    /\ pc = "done"
    /\ ~Rerouted
    /\ exc.type = "ValueError"
    /\ handlers = <<"ValueError", "LookupError">>
    /\ hout = Raised([type |-> "KeyError", msg |-> "k"])
    /\ result = hout
    /\ invoked = <<1>>

\* C10: when the target returns v the call returns v, no handler is invoked,
\* no ERROR record is emitted, and the target has run exactly once.
C10_SuccessIsTransparent ==
    (pc = "done" /\ tout.kind = "return") =>
        /\ result = tout
        /\ invoked = <<>>
        /\ hout = NoOutcome
        /\ ErrorRecords(log) = <<>>
        /\ targetRuns = 1

\* A target that returned 2 with both flags on and a provider registered.
C10_Witness ==
    /\ pc = "done"
    /\ DEBUG
    /\ PING
    /\ provCalls > 0
    /\ tout = Returned(2)
    /\ result = Returned(2)
    /\ log = <<InfoRecord>>

-----------------------------------------------------------------------------
(* C11..C20: the registry, the sink, the composer and the threads *)

\* The first occurrences in q, in q's order.
RECURSIVE FirstOccurrences(_)
FirstOccurrences(q) ==
    IF q = <<>> THEN <<>>
    ELSE LET front == FirstOccurrences(SubSeq(q, 1, Len(q) - 1))
             last == q[Len(q)]
         IN IF \E i \in 1..Len(front) : front[i] = last
            THEN front
            ELSE Append(front, last)

\* The number of positions of q that hold x.
Occurrences(q, x) == Cardinality({i \in 1..Len(q) : q[i] = x})

\* C11: whenever DEBUG or PING is false, _collect_pings returns an empty
\* sequence, has called no provider and has emitted no record.
C11_CollectDisabledIsEmpty ==
    (collected.state # "none" /\ ~(DEBUG /\ PING)) =>
        /\ collected.state = "returned"
        /\ collected.frags = <<>>
        /\ provInvoked = <<>>
        /\ log = <<>>

\* C13: after any sequence of register_provider calls the list holds every
\* registered provider once, in the order of the first registrations, so a
\* repeated registration changes nothing; and a collection gives one fragment
\* per provider, however often it was registered.
C13_RegistrationIdempotent ==
    /\ ping_providers = FirstOccurrences(regCalls)
    /\ \A fn \in ProviderFns : Occurrences(ping_providers, fn) <= 1
    /\ \A fn \in Range(regCalls) : Occurrences(ping_providers, fn) = 1
    /\ (collected.state = "returned" /\ PING) =>
          /\ Len(collected.frags) = Cardinality(Range(regCalls))
          /\ \A fn \in Range(regCalls) :
                /\ Occurrences(provInvoked, fn) = 1
                /\ Occurrences(collected.frags, Fragment(fn)) = 1

\* The timing provider was registered twice around the built-in one, and the
\* collection gave two fragments.
C13_Witness ==
    /\ regCalls = <<"timing", "default", "timing">>
    /\ ping_providers = <<"timing", "default">>
    /\ collected.state = "returned"
    /\ Len(collected.frags) = 2

\* The INFO records of a log.
InfoRecords(l) == SelectSeq(l, LAMBDA r : r.level = "INFO")

\* The ping layer of the invocation has run.
PingLayerDone == pc \notin {"idle", "pings"}

\* C12: once the ping layer of an invocation has run, with both flags on
\* (and no provider raising) every registered provider has been called once
\* and exactly one INFO record emitted; with either flag off no provider has
\* been called and no INFO record emitted.
C12_PingLayerGatedByBothFlags ==
    PingLayerDone =>
        /\ (DEBUG /\ PING /\ FirstFaulty(ping_providers) = 0) =>
              /\ provInvoked = ping_providers
              /\ Len(InfoRecords(log)) = 1
        /\ ~(DEBUG /\ PING) =>
              /\ provInvoked = <<>>
              /\ InfoRecords(log) = <<>>

\* C15: what the caller observes of a finished call (the target ran once; the
\* value or exception; the handler that ran) is fixed by the target, the table
\* and the handler alone, the same under the four flag combinations; and with
\* DEBUG off the call has emitted no record and called no provider. The
\* outcome part is stated for registries where no provider raises.
C15_FlagsTransparent ==
    pc = "done" =>
        /\ FirstFaulty(ping_providers) = 0 =>
              /\ targetRuns = 1
              /\ invoked =
                    (IF tout.kind = "raise" /\ isinstance(tout.exc, "Exception")
                        /\ SelectHandler(handlers, tout.exc) # 0
                     THEN <<SelectHandler(handlers, tout.exc)>>
                     ELSE <<>>)
              /\ result = (IF invoked = <<>> THEN tout ELSE hout)
        /\ ~DEBUG => (log = <<>> /\ provInvoked = <<>>)

\* The direct call c is one the flags let through.
LetThrough(c) == IF c.op = "add_info_log" THEN DEBUG /\ PING ELSE DEBUG

\* The records of the direct calls the flags let through, in call order.
RecordsLetThrough ==
    LET kept == SelectSeq(sinkCalls, LetThrough)
    IN  [i \in 1..Len(kept) |->
            [level |-> IF kept[i].op = "add_info_log" THEN "INFO" ELSE "ERROR",
             tag |-> kept[i].message, attempt |-> 0, exc |-> NoExc]]

\* C14: under every pair of flag values add_info_log emits its record iff
\* DEBUG and PING are both true and add_error_log emits its record iff DEBUG
\* is true; a call that does not emit leaves nothing on the console and
\* nothing in the durable store.
C14_EmissionGatedByFlags ==
    /\ log = RecordsLetThrough
    /\ Console(log) = RecordsLetThrough
    /\ Durable(log) = RecordsLetThrough

C14_Witness ==
    /\ DEBUG /\ ~PING
    /\ Len(sinkCalls) = 2
    /\ sinkCalls[1].op = "add_info_log"
    /\ sinkCalls[2].op = "add_error_log"
    /\ Durable(log) = <<RecordOf("ERROR", sinkCalls[2].message)>>

\* C18: whatever the condition of the log destinations, a finished call never
\* hands the logging fault to its caller: the target has run and the caller
\* has the target's outcome or the invoked handler's (stated for registries
\* where no provider raises).
C18_LoggingFaultNotSurfaced ==
    pc = "done" =>
        /\ result # Raised(LoggingFault)
        /\ FirstFaulty(ping_providers) = 0 =>
              /\ targetRuns = 1
              /\ result = (IF invoked = <<>> THEN tout ELSE hout)

\* C17: every attempt of the fallback is called with the positional and the
\* keyword arguments of the failed call, the ones the context carries, the
\* same on each attempt, whatever function failed and whatever it raised.
C17_FallbackGetsCallArguments ==
    /\ Len(fbArgs) = Len(fb)
    /\ \A i \in 1..Len(fbArgs) :
          /\ fbArgs[i].args = args /\ fbArgs[i].kwargs = kwargs
          /\ fbArgs[i].args = context.args /\ fbArgs[i].kwargs = context.kwargs
          /\ fbArgs[i] = fbArgs[1]

C17_Witness ==
    /\ func = "other_view"
    /\ args = <<"a", "request1">>
    /\ kwargs = {<<"key", "a">>}
    /\ Len(fbArgs) = 3
    /\ fb[1].kind = "raise" /\ fb[3].kind = "return"

\* What an entry of a trace says apart from the clock.
Shape(e) == <<e.hook, e.feature, e.result>>

\* The trace of an invocation through the features chain whose target gave o:
\* the pre-hooks in registration order, the target, the post-hooks in reverse
\* registration order with o.
ExpectedShape(chain, o) ==
    LET n == Len(chain)
    IN  [i \in 1..(2 * n + 1) |->
            IF i <= n THEN <<"pre", chain[i], NoOutcome>>
            ELSE IF i = n + 1 THEN <<"T", "T", o>>
            ELSE <<"post", chain[2 * n + 2 - i], o>>]

\* C16: a finished invocation of the composed function whose target returned
\* has run the pre-hooks in registration order, the target once, the
\* post-hooks in reverse registration order, each with the target's result,
\* and its caller has the target's result.
C16_ComposedOrderAndResult ==
    \A t \in Threads :
        (inv[t].pc = "done" /\ inv[t].res.kind = "return") =>
            /\ [i \in 1..Len(inv[t].trace) |-> Shape(inv[t].trace[i])]
                  = ExpectedShape(wrapped.chain, inv[t].res)
            /\ inv[t].runs = 1
            /\ inv[t].result = inv[t].res

\* C19: the start time track_time's post-hook reads in an invocation is the
\* one that invocation's own pre-hook wrote, whatever the other thread does.
C19_ThreadsDoNotShareHookState ==
    \A t \in Threads : \A i \in 1..Len(inv[t].trace) :
        (inv[t].trace[i].hook = "post" /\ inv[t].trace[i].feature = "track_time") =>
            \E j \in 1..(i - 1) :
                /\ inv[t].trace[j].hook = "pre"
                /\ inv[t].trace[j].feature = "track_time"
                /\ inv[t].trace[j].time = inv[t].trace[i].time

\* The instances a thread has been given.
Given(t) == {acc[t].got[i].instance : i \in 1..Len(acc[t].got)}

\* C20: every thread is given one LogManager on all its accesses, whichever
\* ToolBox it reads the property on; no LogManager is given to two threads;
\* and only as many exist as there are threads that asked for one.
C20_OneLogManagerPerThread ==
    /\ \A t \in Threads : Cardinality(Given(t)) <= 1 /\ 0 \notin Given(t)
    /\ \A t, u \in Threads : t # u => Given(t) \cap Given(u) = {}
    /\ instances <= Cardinality({t \in Threads : acc[t].pc # "idle" \/ acc[t].got # <<>>})
    /\ \A t \in Threads : (acc[t].pc = "idle" /\ acc[t].got = <<>>) => storage[t] = 0

C20_Witness ==
    /\ \A t \in Threads : Len(acc[t].got) = 2
    /\ acc["t1"].got[1].toolbox # acc["t1"].got[2].toolbox
    /\ instances = 2

\* The positions of an invocation's trace where a hook of the kind raised.
RaisedAt(t, hook) ==
    {i \in 1..Len(inv[t].trace) :
        inv[t].trace[i].hook = hook /\ inv[t].trace[i].result.kind = "raise"}

\* C21: once a pre-hook of an invocation has raised, the invocation is over
\* with that exception for its caller: the raising hook is the last entry of
\* the trace, before it only the pre-hooks registered earlier ran, the target
\* did not run and no post-hook ran.
C21_PreHookFailurePropagates ==
    \A t \in Threads : \A i \in RaisedAt(t, "pre") :
        /\ inv[t].pc = "done"
        /\ inv[t].result = inv[t].trace[i].result
        /\ Len(inv[t].trace) = i
        /\ inv[t].runs = 0
        /\ \A j \in 1..i :
              inv[t].trace[j].hook = "pre" /\ inv[t].trace[j].feature = wrapped.chain[j]

C21_Witness ==
    /\ Len(wrapped.chain) = 2
    /\ RaisedAt("t1", "pre") = {1}
    /\ inv["t1"].pc = "done"
    /\ inv["t2"].pc = "done"
    /\ RaisedAt("t2", "pre") = {2}

\* C22: once a post-hook of an invocation has raised, the invocation is over
\* with that exception for its caller in place of the target's result: the
\* target ran once before it, the raising hook is the last entry of the
\* trace, and of the post-hooks only those of later-registered features ran.
C22_PostHookFailurePropagates ==
    \A t \in Threads : \A i \in RaisedAt(t, "post") :
        LET n == Len(wrapped.chain) IN
        /\ inv[t].pc = "done"
        /\ inv[t].result = inv[t].trace[i].result
        /\ inv[t].result # inv[t].res
        /\ Len(inv[t].trace) = i
        /\ inv[t].runs = 1
        /\ inv[t].trace[n + 1].hook = "T"
        /\ i > n + 1
        /\ \A j \in (n + 2)..i : inv[t].trace[j].feature = wrapped.chain[2 * n + 2 - j]

C22_Witness ==
    /\ Len(wrapped.chain) = 2
    /\ RaisedAt("t1", "post") = {4}
    /\ inv["t1"].pc = "done"
    /\ inv["t1"].res.kind = "return"

\* How many of the first k providers give a message that is not empty.
NonEmptyUpTo(k) ==
    Cardinality({i \in 1..k : Fragment(ping_providers[i]).message # ""})

\* The last provider whose context has the key k.
LastWithKey(k) ==
    CHOOSE i \in 1..Len(ping_providers) :
        /\ k \in Keys(Fragment(ping_providers[i]).context)
        /\ \A j \in (i + 1)..Len(ping_providers) :
              k \notin Keys(Fragment(ping_providers[j]).context)

\* C23: with both flags on, when the ping layer has handed its payload to the
\* sink, the providers were called in registration order, the message is the
\* providers' messages in that order with one newline between neighbours, and
\* the merged context has every provider's keys, each with the value of the
\* last-registered provider that supplies the key.
C23_PayloadJoinedAndMerged ==
    (DEBUG /\ PING /\ payload.called) =>
        LET n == Len(ping_providers) IN
        /\ provInvoked = ping_providers
        /\ Len(payload.message) = NonEmptyUpTo(n) + (IF n = 0 THEN 0 ELSE n - 1)
        /\ \A k \in 1..(n - 1) : payload.message[k + NonEmptyUpTo(k)] = "\n"
        /\ \A i \in 1..n :
              Fragment(ping_providers[i]).message # "" =>
                  payload.message[i - 1 + NonEmptyUpTo(i)]
                      = Fragment(ping_providers[i]).message
        /\ Keys(payload.context)
              = UNION {Keys(Fragment(ping_providers[i]).context) : i \in 1..n}
        /\ \A pr \in payload.context :
              pr \in Fragment(ping_providers[LastWithKey(pr[1])]).context
        /\ \A pr, qr \in payload.context : pr[1] = qr[1] => pr = qr

C23_Witness ==
    /\ DEBUG /\ PING /\ payload.called
    /\ ping_providers = <<"timing", "default">>
    /\ payload.message = <<"timing", "\n">>
    /\ <<"func_name", func>> \in payload.context
    /\ Len(InfoRecords(log)) = 1

\* C24: on a failed call the context the except block built has the wrapped
\* function, the call's positional and keyword arguments, the dispatching
\* ToolBox, and as request the first positional argument that has a user
\* attribute, None when there is none; with or without a request the handler
\* of the matching entry is called.
C24_ContextOfFailedCall ==
    Failed =>
        /\ context.func = func
        /\ context.args = args
        /\ context.kwargs = kwargs
        /\ context.toolbox = "self"
        /\ IF \E i \in 1..Len(args) : hasattr_user(args[i])
           THEN \E i \in 1..Len(args) :
                    /\ context.request = args[i]
                    /\ hasattr_user(args[i])
                    /\ \A j \in 1..(i - 1) : ~hasattr_user(args[j])
           ELSE context.request = "None"
        /\ invoked = <<1>>

C24_Witness ==
    /\ pc = "done"
    /\ args = <<"request2", "request1">>
    /\ context.request = "request2"
    /\ invoked = <<1>>
    /\ hout.kind = "return"

\* A provider has raised an Exception in the ping layer of the call.
ProviderFailed ==
    /\ PING
    /\ FirstFaulty(ping_providers) # 0
    /\ exc # NoExc

\* C26: when a provider raised an Exception, the target is never run for the
\* call, and the exception goes the way of a target failure: one TRIGGER
\* record for it (under DEBUG, as for any failure), the handler of the first
\* matching entry called with nothing else invoked, and the exception itself
\* re-raised when no entry matches.
C26_ProviderFailureIsDispatched ==
    ProviderFailed =>
        /\ targetRuns = 0
        /\ tout = NoOutcome
        /\ Failed =>
              /\ TriggerRecords(log) = (IF DEBUG THEN <<TriggerRecord(exc)>> ELSE <<>>)
              /\ \A k \in 1..Len(handlers) :
                    (isinstance(exc, handlers[k])
                     /\ \A j \in 1..(k - 1) : ~isinstance(exc, handlers[j]))
                        => invoked = <<k>>
              /\ NoKeyMatches(exc) =>
                    (invoked = <<>> /\ pc = "done" /\ result = Raised(exc))

C26_Witness ==
    /\ ProviderFailed
    /\ DEBUG
    /\ pc = "done"
    /\ Len(handlers) = 2
    /\ invoked = <<2>>
    /\ hout.kind = "return"
    /\ result = hout

\* C27: however the tests and the appends of the threads' register_provider
\* calls interleave, the provider list holds each provider at most once.
C27_ConcurrentRegistrationKeepsOne ==
    \A fn \in ProviderFns : Occurrences(ping_providers, fn) <= 1

\* C25: however the home_view requests of the threads interleave, every one
\* of them ends with the response of the fallback home_2view, never with
\* ValueError.
C25_HomeViewAlwaysRecovers ==
    \A t \in Threads : \A i \in 1..Len(req[t].results) :
        req[t].results[i] = about_view_response

\* The attempt numbers 1, 2, ... of the length of q.
Counted(q) == q = [i \in 1..Len(q) |-> i]

\* C28: whatever the same handler's earlier invocations were, and whatever the
\* other thread's invocation is doing, every invocation numbers its attempts
\* from 1, makes at most retries of them, and raises for exhaustion only after
\* attempt number retries.
C28_EveryInvocationHasFullBudget ==
    \A t \in Threads :
        /\ Counted(hinv[t].tried)
        /\ Len(hinv[t].tried) <= retries
        /\ hinv[t].pc = "attempt" => hinv[t].attempt = Len(hinv[t].tried) + 1
        /\ \A i \in 1..Len(hinv[t].history) :
              /\ Counted(hinv[t].history[i].tried)
              /\ Len(hinv[t].history[i].tried) <= retries
              /\ hinv[t].history[i].outcome.kind = "raise" =>
                    Len(hinv[t].history[i].tried) = retries

C28_Witness ==
    /\ retries = 2
    /\ Len(hinv["t1"].history) = 2
    /\ hinv["t1"].history[1].outcome.kind = "raise"
    /\ hinv["t1"].history[2].outcome.kind = "raise"
    /\ hinv["t1"].history[2].tried = <<1, 2>>
    /\ hinv["t2"].pc = "sleep"

\* The decision at decoration time, and a finished call of the function
\* itself: no provider, no record, the target once with the call's arguments
\* and its outcome for the caller.
LightIdentityPart ==
    /\ light.made => (light.wrapper <=> (DEBUG /\ PING))
    /\ (pc = "done" /\ ~(DEBUG /\ PING)) =>
          /\ ~light.wrapper
          /\ provInvoked = <<>>
          /\ log = <<>>
          /\ targetRuns = 1
          /\ targetArgs = <<[args |-> args, kwargs |-> kwargs]>>
          /\ result = tout

\* A finished call of the wrapper ran the target once with the call's
\* arguments and handed its outcome to the caller.
LightTargetRanOnce ==
    /\ targetRuns = 1
    /\ targetArgs = <<[args |-> args, kwargs |-> kwargs]>>
    /\ result = tout

\* C29 as stated: under either form, with a flag off the decorated function
\* is the function itself, so a call invokes no provider and emits no record;
\* with both flags on every finished call has run the target exactly once with
\* the same arguments and returned or raised what the target did.
C29_LightToolboxTransparent ==
    /\ LightIdentityPart
    /\ (pc = "done" /\ DEBUG /\ PING) => LightTargetRanOnce

\* C29 amended: as stated, except that with both flags on a call whose ping
\* layer raises (a provider, or add_info_log on an unwritable durable store)
\* ends with that exception and the target not run.
C29_LightToolboxUnlessPingLayerRaises ==
    /\ LightIdentityPart
    /\ (pc = "done" /\ DEBUG /\ PING) =>
          IF FirstFaulty(ping_providers) # 0
          THEN targetRuns = 0 /\ tout = NoOutcome /\ result.kind = "raise"
          ELSE IF fault = "unwritable"
          THEN targetRuns = 0 /\ tout = NoOutcome /\ result = Raised(LoggingFault)
          ELSE LightTargetRanOnce

C29_Witness ==
    /\ light.form = "called"
    /\ DEBUG /\ PING
    /\ pc = "done"
    /\ ping_providers = <<"default", "faulty">>
    /\ provInvoked = <<"default", "faulty">>
    /\ targetRuns = 0
    /\ result.kind = "raise"

\* C30: once configure_toolbox_logging has been called, however often, the
\* "toolbox" logger holds exactly one console handler and one file handler,
\* and every emitted record has been rendered exactly once on the console and
\* exactly once in the durable file.
C30_HandlersAttachedOnce ==
    configCalls >= 1 =>
        /\ Len(SelectSeq(loggerHandlers, LAMBDA h : h = "console")) = 1
        /\ Len(SelectSeq(loggerHandlers, LAMBDA h : h = "file")) = 1
        /\ Len(loggerHandlers) = 2
        /\ rendered.console = log
        /\ rendered.file = log

C30_Witness ==
    /\ configCalls >= 2
    /\ Len(log) >= 2
    /\ rendered.file = log
    /\ log[1].level = "INFO"
    /\ log[2].level = "ERROR"

====
